---- MODULE Spec2Model ----
(***************************************************************************)
(* Process life-cycle simulation of simulador.py (and its GUI twin         *)
(* pruebagrafica.py): a SimPy event loop, a Container (RAM), a Resource    *)
(* (CPU) and the generator `proceso`, driven by ejecutar_simulacion.       *)
(*                                                                         *)
(* Virtual time is counted in ticks; the quantum env.timeout(1) is         *)
(* Quantum ticks, so arrival gaps and I/O waits can be fractions of it.    *)
(* The module-level generator `random` seeded with RANDOM_SEED is a tape:  *)
(* the stream of raw draws that seed yields, discovered draw by draw, and  *)
(* a position that random.seed() resets.                                   *)
(***************************************************************************)
EXTENDS Integers, Sequences, FiniteSets, TLC

VARIABLES
    cfg,                \* arguments of ejecutar_simulacion (+ corridas: the calls the driver makes)
    run,                \* per call of ejecutar_simulacion: env, RAM, CPU, processes, result
    tape,               \* raw outputs of random after random.seed(RANDOM_SEED), as far as drawn
    pos,                \* state of the global generator: draws made since the last seed
    tiempos_ejecucion,  \* the module-level list of simulador.py
    gui                 \* pruebagrafica.py: the start button, the worker thread, the Tk callbacks

vars == <<cfg, run, tape, pos, tiempos_ejecucion, gui>>

\* ---------------------------------------------------------------- constants

MAX_MEMORIA_PROCESO == 10
MIN_MEMORIA_PROCESO == 1
MAX_INSTRUCCIONES == 10
MIN_INSTRUCCIONES == 1
\* ticks of one time unit, the delay of env.timeout(1)
Quantum == 2
\* the value of random.randint(1, 21) that sends a process to I/O
Sentinel == 1

\* ------------------------------------------------------------------- bounds

\* calls of ejecutar_simulacion the driver makes at most
MaxCorridas == 2
\* CPU grants per process the model follows (binds only when velocidad_cpu <= 0)
MaxQuanta == 3

Runs == 1..MaxCorridas
Raw == {0, 1}

\* --------------------------------------------------- the random conversions

\* random.expovariate(1.0 / intervalo_llegada): a gap >= 0, in ticks
\* a gap that falls before the clock
GapNegativo(u) == IF u = 0 THEN 0 ELSE -1

GapOf(u) == IF u = 0 THEN 0 ELSE 1
\* random.randint(MIN_MEMORIA_PROCESO, MAX_MEMORIA_PROCESO)
MemoriaOf(u) == IF u = 0 THEN 5 ELSE 7
\* random.randint(MIN_INSTRUCCIONES, MAX_INSTRUCCIONES)
InstruccionesOf(u) == IF u = 0 THEN 1 ELSE 4
\* random.randint(1, 21)
DecisionOf(u) == IF u = 0 THEN Sentinel ELSE 21
\* random.uniform(1, 3), in ticks
IoOf(u) == IF u = 0 THEN Quantum ELSE 2 * Quantum + 1

\* ------------------------------------------------------------ configurations

Config(n, i, m, c, v, k) ==
    [num_procesos |-> n, intervalo_llegada |-> i, memoria_total |-> m,
     num_cpus |-> c, velocidad_cpu |-> v, corridas |-> k]

ValidConfig(c) ==
    /\ c.num_procesos > 0
    /\ c.intervalo_llegada > 0
    /\ c.memoria_total > 0
    /\ c.num_cpus > 0
    /\ c.velocidad_cpu > 0

Configs ==
    { Config(3, 10, 10, 1, 3, 1), Config(3, 10, 10, 2, 3, 1),
      Config(3, 10, 5, 1, 3, 1),  Config(2, 10, 5, 2, 6, MaxCorridas),
      Config(4, 10, 28, 2, 6, 1),
      Config(2, 10, 10, 1, 3, MaxCorridas), Config(1, 10, 10, 1, 3, MaxCorridas),
      Config(1, 10, 7, 2, 6, 1),
      Config(0, 10, 10, 1, 3, 1), Config(2, 0, 10, 1, 3, 1),
      Config(1, 10, 0, 1, 3, 1),  Config(1, 10, 10, 0, 3, 1),
      Config(1, 10, 10, 1, 0, 1) }

ConfigsConc ==
    { Config(1, 10, 10, 1, 3, 2), Config(1, 0, 10, 1, 3, 2) }

\* ------------------------------------------------------------------ helpers

RECURSIVE Sum(_)
Sum(s) == IF s = <<>> THEN 0 ELSE Head(s) + Sum(Tail(s))

RECURSIVE SumSq(_)
SumSq(s) == IF s = <<>> THEN 0 ELSE Head(s) * Head(s) + SumSq(Tail(s))

Min(a, b) == IF a <= b THEN a ELSE b

Range(s) == {s[i] : i \in DOMAIN s}

\* Results are fractions num/den of ticks; a zero denominator is numpy's nan.

\* np.mean: sum / len, which is 0/0 (nan, with a RuntimeWarning) for an empty list
Mean(s) == [num |-> Sum(s), den |-> Len(s)]

\* np.std (population), given by its square: mean(x^2) - mean(x)^2, nan for an
\* empty list
Std(s) == [num |-> Len(s) * SumSq(s) - Sum(s) * Sum(s), den |-> Len(s) * Len(s)]

IsNaN(x) == x.den = 0

IsZero(x) == x.den # 0 /\ x.num = 0

Procs(s) == DOMAIN s.procs

NoProc == [st |-> "creado", llegada |-> -1, memoria |-> 0, instrucciones |-> 0,
           ejecutadas |-> 0, tieneMem |-> FALSE, quanta |-> 0,
           memTicket |-> 0, cpuTicket |-> 0, detras |-> {}, espero |-> FALSE,
     totales |-> 0, retiradas |-> <<>>, io |-> 0, inicio |-> -1,
     memEspero |-> FALSE, otorgada |-> -1, fin |-> -1, total |-> -1,
     indice |-> 0]

NoRun == [fase |-> "pendiente", now |-> 0, eid |-> 0, cola |-> {},
          capacidad |-> 0, level |-> 0, get_queue |-> <<>>,
          cpus |-> 0, users |-> {}, put_queue |-> <<>>,
          procs |-> <<>>, procesados |-> 0, tickets |-> 0,
          resultado |-> <<>>, leidos |-> <<>>, propios |-> <<>>, draws |-> <<>>]

\* ------------------------------------------------------ simpy: Environment

URGENT == 0
NORMAL == 1

\* env.schedule(event, priority, delay): heap entry (time, priority, eid, event)
Schedule(s, tipo, p, prio, delay) ==
    [s EXCEPT !.cola = @ \cup {[t |-> s.now + delay, prio |-> prio, id |-> s.eid,
                                tipo |-> tipo, p |-> p]},
              !.eid = @ + 1]

Before(e, f) ==
    \/ e.t < f.t
    \/ e.t = f.t /\ e.prio < f.prio
    \/ e.t = f.t /\ e.prio = f.prio /\ e.id < f.id

\* heappop of env.step
NextEvent(s) == CHOOSE e \in s.cola : \A f \in s.cola \ {e} : Before(e, f)

\* env.step up to the callbacks: pop the event and move the clock to it
Pop(s) ==
    LET e == NextEvent(s)
    IN [s EXCEPT !.now = e.t, !.cola = @ \ {e}, !.procesados = @ + 1]

Pending(r, tipo) ==
    /\ run[r].fase = "corriendo"
    /\ run[r].cola # {}
    /\ NextEvent(run[r]).tipo = tipo

\* -------------------------------------------------- simpy: Container (RAM)

\* a get that succeeds without taking the amount
DoGetSinTomar(s, p) ==
    Schedule([s EXCEPT !.get_queue = Tail(@), !.procs[p].otorgada = s.now],
             "get", p, NORMAL, 0)

\* Container._do_get on a request that fits: take the amount, trigger the event
DoGet(s, p) ==
    Schedule([s EXCEPT !.level = @ - s.procs[p].memoria,
                       !.get_queue = Tail(@),
                       !.procs[p].tieneMem = TRUE,
                       !.procs[p].otorgada = s.now],
             "get", p, NORMAL, 0)

\* _trigger_get that grants one request at most
TriggerGetUno(s) ==
    IF s.get_queue = <<>> THEN s
    ELSE LET p == Head(s.get_queue)
         IN IF s.level >= s.procs[p].memoria THEN DoGet(s, p) ELSE s

\* _trigger_get that grants the head request whatever the level
TriggerGetSinNivel(s) ==
    IF s.get_queue = <<>> THEN s ELSE DoGet(s, Head(s.get_queue))

\* _trigger_get that goes on past a request that does not fit
RECURSIVE ServeFrom(_, _)
ServeFrom(s, i) ==
    IF i > Len(s.get_queue) THEN s
    ELSE LET p == s.get_queue[i]
         IN IF s.level >= s.procs[p].memoria
            THEN ServeFrom(Schedule([s EXCEPT
                        !.level = @ - s.procs[p].memoria,
                        !.get_queue = SubSeq(@, 1, i - 1) \o SubSeq(@, i + 1, Len(@)),
                        !.procs[p].tieneMem = TRUE], "get", p, NORMAL, 0), i)
            ELSE ServeFrom(s, i + 1)

TriggerGetSaltando(s) == ServeFrom(s, 1)

\* BaseResource._trigger_get over Container._do_get: serve the head of the
\* queue while it fits, stop at the first request that does not
RECURSIVE TriggerGet(_)
TriggerGet(s) ==
    IF s.get_queue = <<>> THEN s
    ELSE LET p == Head(s.get_queue)
         IN IF s.level >= s.procs[p].memoria THEN TriggerGet(DoGet(s, p)) ELSE s

\* RAM.get(memoria_requerida): queue the request, then _trigger_get
RamGet(s, p) ==
    LET q == TriggerGet([s EXCEPT !.get_queue = Append(@, p),
                                  !.procs[p].memTicket = s.tickets + 1,
                                  !.tickets = @ + 1])
    IN [q EXCEPT !.procs[p].memEspero = p \in Range(q.get_queue)]

\* a termination that gives back twice the memory
RamPutDoble(s, p) ==
    Schedule([s EXCEPT !.level = @ + 2 * s.procs[p].memoria,
                       !.procs[p].tieneMem = FALSE],
             "put", p, NORMAL, 0)

\* a termination that keeps the memory
RamPutSinDevolver(s, p) ==
    Schedule([s EXCEPT !.procs[p].tieneMem = FALSE], "put", p, NORMAL, 0)

\* RAM.put(memoria_requerida): Container._do_put adds the amount at once (it
\* always fits) and triggers the put event, whose callback is _trigger_get
RamPut(s, p) ==
    Schedule([s EXCEPT !.level = @ + s.procs[p].memoria,
                       !.procs[p].tieneMem = FALSE],
             "put", p, NORMAL, 0)

\* --------------------------------------------------- simpy: Resource (CPU)

\* _do_put without the test of the capacity
DoPutSinLimite(s, p) ==
    Schedule([s EXCEPT !.users = @ \cup {p}, !.put_queue = Tail(@)],
             "req", p, NORMAL, 0)

\* _do_put that leaves one server unused
DoPutUnoMenos(s, p) ==
    IF Cardinality(s.users) < s.cpus - 1
    THEN Schedule([s EXCEPT !.users = @ \cup {p}, !.put_queue = Tail(@)],
                  "req", p, NORMAL, 0)
    ELSE s

\* Resource._do_put: the request becomes a user if a server is free
DoPut(s, p) ==
    IF Cardinality(s.users) < s.cpus
    THEN Schedule([s EXCEPT !.users = @ \cup {p}, !.put_queue = Tail(@)],
                  "req", p, NORMAL, 0)
    ELSE s

\* BaseResource._trigger_put over Resource._do_put, which returns None: only
\* the head of the queue is tried
TriggerPut(s) ==
    IF s.put_queue = <<>> THEN s ELSE DoPut(s, Head(s.put_queue))

\* the request as issued: its order number, the processes queued ahead of it
Issued(s, p) ==
    [s EXCEPT !.procs[p].cpuTicket = s.tickets + 1,
              !.procs[p].detras = Range(s.put_queue),
              !.tickets = @ + 1]

\* the request after its _trigger_put: whether it was left waiting
Queued(s, p) == [s EXCEPT !.procs[p].espero = p \in Range(s.put_queue)]

\* a request that goes to the front of the queue
RequestAlFrente(s, p) ==
    Queued(TriggerPut([Issued(s, p) EXCEPT !.put_queue = <<p>> \o @]), p)

\* CPU.request(): queue the request, then _trigger_put
Request(s, p) ==
    Queued(TriggerPut([Issued(s, p) EXCEPT !.put_queue = Append(@, p)]), p)

\* a release that leaves the request among the users
ReleaseSinSoltar(s, p) == Schedule(s, "release", p, NORMAL, 0)

\* leaving `with CPU.request() as req`: CPU.release(req) drops the user at
\* once and triggers the release event, whose callback is _trigger_put
Release(s, p) ==
    Schedule([s EXCEPT !.users = @ \ {p}], "release", p, NORMAL, 0)

\* ------------------------------------------------------- the global random

\* a raw value u the generator may return as its i-th next draw: the value the
\* seed's stream holds there, when that part of the stream is known
Drawn(i, u) == pos + i <= Len(tape) => u = tape[pos + i]

\* the stream as known after the draws d (a sequence of raw values)
TapeAfter(d) ==
    [i \in 1..(IF pos + Len(d) > Len(tape) THEN pos + Len(d) ELSE Len(tape)) |->
        IF i <= Len(tape) THEN tape[i] ELSE d[i - pos]]

\* a call that does not seed the generator
SeedSinReiniciar(q) == q

\* random.seed(RANDOM_SEED): the generator's position after the call
Seed(q) == 0

\* the generator after run r's draws d
Draw(d) ==
    /\ tape' = TapeAfter(d)
    /\ pos' = pos + Len(d)

NoDraw == UNCHANGED <<tape, pos>>

\* ---------------------------------------------------- ejecutar_simulacion

\* env, RAM, CPU and the processes of one call; simpy.Container and
\* simpy.Resource raise ValueError for a capacity <= 0
Setup(c) ==
    IF c.memoria_total <= 0 \/ c.num_cpus <= 0
    THEN [NoRun EXCEPT !.fase = "error"]
    ELSE [NoRun EXCEPT
            !.fase = "corriendo",
            !.capacidad = c.memoria_total,
            !.level = c.memoria_total,
            !.cpus = c.num_cpus,
            !.procs = [p \in 1..c.num_procesos |-> NoProc],
            !.cola = {[t |-> 0, prio |-> URGENT, id |-> p - 1, tipo |-> "init", p |-> p] :
                        p \in 1..c.num_procesos},
            !.eid = IF c.num_procesos > 0 THEN c.num_procesos ELSE 0]

Arrancar(r) ==
    /\ r <= cfg.corridas
    /\ run[r].fase = "pendiente"
    /\ tiempos_ejecucion' = <<>>
    /\ pos' = Seed(pos)
    /\ run' = [run EXCEPT ![r] = Setup(cfg)]
    /\ UNCHANGED <<gui, cfg, tape>>

\* the driver calls ejecutar_simulacion again once the previous call returned
EjecutarSimulacion(r) ==
    /\ IF r = 1 THEN TRUE ELSE run[r - 1].fase = "retornado"
    /\ Arrancar(r)

\* two calls running at once (a host driver's worker threads), event by event
EjecutarSimulacionConc(r) == Arrancar(r)

\* env.run() found the queue empty: the statistics of the global list
Retornar(r) ==
    /\ run[r].fase = "corriendo"
    /\ run[r].cola = {}
    /\ run' = [run EXCEPT ![r] = [@ EXCEPT
                  !.fase = "retornado",
                  !.leidos = tiempos_ejecucion,
                  !.resultado = <<Mean(tiempos_ejecucion), Std(tiempos_ejecucion)>>]]
    /\ UNCHANGED <<gui, cfg, tape, pos, tiempos_ejecucion>>

\* ------------------------------------------------------------------ proceso

\* the process whose event is next
Actor(r) == NextEvent(run[r]).p

\* Initialize: the generator starts and waits for its arrival gap; a zero
\* intervalo_llegada raises ZeroDivisionError inside the process
Inicializar(r) ==
    /\ Pending(r, "init")
    /\ LET s == Pop(run[r])
           p == Actor(r)
       IN IF cfg.intervalo_llegada = 0
          THEN /\ run' = [run EXCEPT ![r] =
                    Schedule([s EXCEPT !.procs[p].st = "fallido"], "proc", p, NORMAL, 0)]
               /\ NoDraw
          ELSE \E u \in Raw :
               /\ Drawn(1, u)
               /\ run' = [run EXCEPT ![r] =
                    Schedule([s EXCEPT !.procs[p].st = "llegando",
                                       !.draws = @ \o <<u>>],
                             "llegada", p, NORMAL, GapOf(u))]
               /\ Draw(<<u>>)
    /\ UNCHANGED <<gui, cfg, tiempos_ejecucion>>

\* the arrival: draw the demand and the instructions, ask for the memory
Llegada(r) ==
    /\ Pending(r, "llegada")
    /\ LET s == Pop(run[r])
           p == Actor(r)
       IN \E u1, u2 \in Raw :
            /\ Drawn(1, u1) /\ Drawn(2, u2)
            /\ run' = [run EXCEPT ![r] =
                 RamGet([s EXCEPT !.procs[p].llegada = s.now,
                                  !.procs[p].memoria = MemoriaOf(u1),
                                  !.procs[p].instrucciones = InstruccionesOf(u2),
                                  !.procs[p].totales = InstruccionesOf(u2),
                                  !.procs[p].st = "NEW",
                                  !.draws = @ \o <<u1, u2>>], p)]
            /\ Draw(<<u1, u2>>)
    /\ UNCHANGED <<gui, cfg, tiempos_ejecucion>>

\* the memory was granted: READY, ask for the CPU (while instrucciones > 0)
MemoriaOtorgada(r) ==
    /\ Pending(r, "get")
    /\ LET s == Pop(run[r])
           p == Actor(r)
       IN run' = [run EXCEPT ![r] =
            IF s.procs[p].instrucciones > 0
            THEN Request([s EXCEPT !.procs[p].st = "READY"], p)
            ELSE Schedule([s EXCEPT !.procs[p].st = "TERMINATED"], "proc", p, NORMAL, 0)]
    /\ UNCHANGED <<gui, cfg, tape, pos, tiempos_ejecucion>>

\* a quantum that executes nothing
EjecutadasCero(v, n) == 0

\* a quantum that executes up to twice velocidad_cpu
EjecutadasDoble(v, n) == Min(2 * v, n)

\* a quantum that executes all that is left
EjecutadasTodas(v, n) == n

\* instrucciones_ejecutadas = min(velocidad_cpu, instrucciones_totales)
Ejecutadas(v, n) == Min(v, n)

\* a quantum as long as the instructions it executes
DuracionProporcional(n) == n

\* yield env.timeout(1): one time unit, whatever the quantum executes
DuracionQuantum(n) == Quantum

\* the CPU was granted: RUNNING for one time unit
CpuOtorgada(r) ==
    /\ Pending(r, "req")
    /\ run[r].procs[Actor(r)].quanta < MaxQuanta
    /\ LET s == Pop(run[r])
           p == Actor(r)
       IN run' = [run EXCEPT ![r] =
            Schedule([s EXCEPT !.procs[p].st = "RUNNING",
                               !.procs[p].ejecutadas =
                                   Ejecutadas(cfg.velocidad_cpu, s.procs[p].instrucciones),
                               !.procs[p].quanta = @ + 1,
                               !.procs[p].inicio = s.now],
                     "quantum", p, NORMAL,
                     DuracionQuantum(Ejecutadas(cfg.velocidad_cpu,
                                                s.procs[p].instrucciones)))]
    /\ UNCHANGED <<gui, cfg, tape, pos, tiempos_ejecucion>>

\* a quantum that always retires velocidad_cpu instructions
RetirarVelocidad(s, p) ==
    [s EXCEPT !.procs[p].instrucciones = @ - cfg.velocidad_cpu,
              !.procs[p].retiradas = Append(@, cfg.velocidad_cpu)]

\* the state as the quantum ends: instrucciones_totales -= instrucciones_ejecutadas
Retirar(s, p) ==
    [s EXCEPT !.procs[p].instrucciones = @ - s.procs[p].ejecutadas,
              !.procs[p].retiradas = Append(@, s.procs[p].ejecutadas)]

\* a loop that asks for the CPU again without going back to READY
ReintentarSinReady(s, p) == Request(Release(s, p), p)

\* a loop that asks for the CPU again before it leaves the `with` block
ReintentarAntes(s, p) == Release(Request([s EXCEPT !.procs[p].st = "READY"], p), p)

\* the end of a `with CPU.request()` block that loops: release, then request again
Reintentar(s, p) == Request([Release(s, p) EXCEPT !.procs[p].st = "READY"], p)

\* a turnaround put at the front of the list
RegistrarAlFrente(lista, total) == <<total>> \o lista

\* tiempos_ejecucion.append(tiempo_total)
Registrar(lista, total) == Append(lista, total)

\* the quantum ended with nothing left: TERMINATED
Terminar(r) ==
    /\ Pending(r, "quantum")
    /\ LET p == Actor(r)
           s == Retirar(Pop(run[r]), p)
           total == s.now - s.procs[p].llegada
       IN /\ s.procs[p].instrucciones <= 0
          /\ tiempos_ejecucion' = Registrar(tiempos_ejecucion, total)
          /\ run' = [run EXCEPT ![r] =
               Schedule(Release([RamPut(s, p) EXCEPT !.procs[p].st = "TERMINATED",
                                                     !.procs[p].fin = s.now,
                                                     !.procs[p].total = total,
                                                     !.procs[p].indice =
                                                         Len(tiempos_ejecucion) + 1,
                                                     !.propios = Append(@, total)], p),
                        "proc", p, NORMAL, 0)]
    /\ UNCHANGED <<gui, cfg, tape, pos>>

\* the quantum ended with work left and decision == 1: WAITING for the I/O,
\* inside the `with` block
PasarAWaiting(r) ==
    /\ Pending(r, "quantum")
    /\ LET p == Actor(r)
           s == Retirar(Pop(run[r]), p)
       IN /\ s.procs[p].instrucciones > 0
          /\ \E u1, u2 \in Raw :
               /\ Drawn(1, u1) /\ Drawn(2, u2)
               /\ DecisionOf(u1) = Sentinel
               /\ run' = [run EXCEPT ![r] =
                    Schedule([s EXCEPT !.procs[p].st = "WAITING",
                                       !.procs[p].io = @ + IoOf(u2),
                                       !.draws = @ \o <<u1, u2>>],
                             "io", p, NORMAL, IoOf(u2))]
               /\ Draw(<<u1, u2>>)
    /\ UNCHANGED <<gui, cfg, tiempos_ejecucion>>

\* the quantum ended with work left and decision != 1: back to READY
VolverAReady(r) ==
    /\ Pending(r, "quantum")
    /\ LET p == Actor(r)
           s == Retirar(Pop(run[r]), p)
       IN /\ s.procs[p].instrucciones > 0
          /\ \E u1 \in Raw :
               /\ Drawn(1, u1)
               /\ DecisionOf(u1) # Sentinel
               /\ run' = [run EXCEPT ![r] =
                    Reintentar([s EXCEPT !.draws = @ \o <<u1>>], p)]
               /\ Draw(<<u1>>)
    /\ UNCHANGED <<gui, cfg, tiempos_ejecucion>>

\* the I/O ended: the `with` block ends, back to READY
FinIo(r) ==
    /\ Pending(r, "io")
    /\ run' = [run EXCEPT ![r] = Reintentar(Pop(run[r]), Actor(r))]
    /\ UNCHANGED <<gui, cfg, tape, pos, tiempos_ejecucion>>

\* the put event of RAM.put is processed: its callback serves the get queue
PutProcesado(r) ==
    /\ Pending(r, "put")
    /\ run' = [run EXCEPT ![r] = TriggerGet(Pop(run[r]))]
    /\ UNCHANGED <<gui, cfg, tape, pos, tiempos_ejecucion>>

\* the release event is processed: its callback serves the request queue
ReleaseProcesado(r) ==
    /\ Pending(r, "release")
    /\ run' = [run EXCEPT ![r] = TriggerPut(Pop(run[r]))]
    /\ UNCHANGED <<gui, cfg, tape, pos, tiempos_ejecucion>>

\* the event of a process that returned is processed: nothing waits for it
FinProceso(r) ==
    /\ Pending(r, "proc")
    /\ run[r].procs[Actor(r)].st # "fallido"
    /\ run' = [run EXCEPT ![r] = Pop(run[r])]
    /\ UNCHANGED <<gui, cfg, tape, pos, tiempos_ejecucion>>

\* the event of a process that raised is processed: env.run() raises
Excepcion(r) ==
    /\ Pending(r, "proc")
    /\ run[r].procs[Actor(r)].st = "fallido"
    /\ run' = [run EXCEPT ![r] = [Pop(run[r]) EXCEPT !.fase = "error"]]
    /\ UNCHANGED <<gui, cfg, tape, pos, tiempos_ejecucion>>

\* ------------------------------------------------------------ specifications

\* the window before the start button is pressed: no worker thread, no
\* callback waiting in the Tk main loop, simulacion_en_progreso = False
NoGui == [boton |-> "normal", hilo |-> "no", en_progreso |-> FALSE,
          after |-> <<>>, habilitado |-> 0]

InitWith(cs) ==
    /\ cfg \in cs
    /\ run = [r \in Runs |-> NoRun]
    /\ tape = <<>>
    /\ pos = 0
    /\ tiempos_ejecucion = <<>>
    /\ gui = NoGui

Init == InitWith(Configs)

InitConc == InitWith(ConfigsConc)

Step(r) ==
    \/ Retornar(r)
    \/ Inicializar(r)
    \/ Llegada(r)
    \/ MemoriaOtorgada(r)
    \/ CpuOtorgada(r)
    \/ Terminar(r)
    \/ PasarAWaiting(r)
    \/ VolverAReady(r)
    \/ FinIo(r)
    \/ PutProcesado(r)
    \/ ReleaseProcesado(r)
    \/ FinProceso(r)
    \/ Excepcion(r)

Next == \E r \in Runs : EjecutarSimulacion(r) \/ Step(r)

NextConc == \E r \in Runs : EjecutarSimulacionConc(r) \/ Step(r)

Spec == Init /\ [][Next]_vars

SpecConc == InitConc /\ [][NextConc]_vars

\* two CPUs and four processes that arrive together: the seed's stream starts
\* with four gaps of zero
ConfigsCuatro == { Config(4, 10, 28, 2, 3, 1), Config(1, 0, 10, 1, 3, 1) }

InitCuatro ==
    /\ cfg \in ConfigsCuatro
    /\ run = [r \in Runs |-> NoRun]
    /\ tape = <<0, 0, 0, 0>>
    /\ pos = 0
    /\ tiempos_ejecucion = <<>>
    /\ gui = NoGui

SpecCuatro == InitCuatro /\ [][Next]_vars

\* ------------------------------------------- pruebagrafica.py: the window

\* the experiments the window asks for
ConfigsGui ==
    { Config(2, 10, 10, 1, 3, 1), Config(1, 10, 10, 1, 3, MaxCorridas),
      Config(1, 0, 10, 1, 3, 1) }

InitGui == InitWith(ConfigsGui)

\* iniciar_simulacion: the button is disabled and the worker thread started
IniciarSimulacion ==
    /\ gui.boton = "normal"
    /\ gui.hilo = "no"
    /\ gui' = [gui EXCEPT !.boton = "disabled", !.hilo = "iniciado"]
    /\ UNCHANGED <<cfg, run, tape, pos, tiempos_ejecucion>>

\* ejecutar_experimentos starts: simulacion_en_progreso = True
EjecutarExperimentos ==
    /\ gui.hilo = "iniciado"
    /\ gui' = [gui EXCEPT !.en_progreso = TRUE, !.hilo = "experimentos"]
    /\ UNCHANGED <<cfg, run, tape, pos, tiempos_ejecucion>>

\* the worker thread is inside the loops of ejecutar_experimentos
EnExperimentos == gui.hilo = "experimentos"

\* the calls of ejecutar_simulacion the worker thread makes, event by event
GuiStep(r) ==
    \/ EnExperimentos /\ EjecutarSimulacion(r)
    \/ EnExperimentos /\ Retornar(r)
    \/ EnExperimentos /\ Inicializar(r)
    \/ EnExperimentos /\ Llegada(r)
    \/ EnExperimentos /\ MemoriaOtorgada(r)
    \/ EnExperimentos /\ CpuOtorgada(r)
    \/ EnExperimentos /\ Terminar(r)
    \/ EnExperimentos /\ PasarAWaiting(r)
    \/ EnExperimentos /\ VolverAReady(r)
    \/ EnExperimentos /\ FinIo(r)
    \/ EnExperimentos /\ PutProcesado(r)
    \/ EnExperimentos /\ ReleaseProcesado(r)
    \/ EnExperimentos /\ FinProceso(r)
    \/ EnExperimentos /\ Excepcion(r)

\* every call returned: simulacion_en_progreso = False, ejecutar_experimentos
\* returns and the thread leaves the log and simulacion_completada to Tk
ExperimentosRetorna ==
    /\ EnExperimentos
    /\ \A r \in 1..cfg.corridas : run[r].fase = "retornado"
    /\ gui' = [gui EXCEPT !.en_progreso = FALSE,
                          !.after = @ \o <<"log", "completada">>,
                          !.hilo = "bucle"]
    /\ UNCHANGED <<cfg, run, tape, pos, tiempos_ejecucion>>

\* a call raised: the except clause leaves the error box and
\* simulacion_completada to Tk
ExperimentosFalla ==
    /\ EnExperimentos
    /\ \E r \in Runs : run[r].fase = "error"
    /\ gui' = [gui EXCEPT !.after = @ \o <<"error", "completada">>,
                          !.hilo = "bucle"]
    /\ UNCHANGED <<cfg, run, tape, pos, tiempos_ejecucion>>

\* while self.simulador.simulacion_en_progreso: one turn leaves
\* actualizar_progreso to Tk and sleeps; the thread ends when the flag is False
Bucle ==
    /\ gui.hilo = "bucle"
    /\ IF gui.en_progreso
       THEN /\ "progreso" \notin Range(gui.after)
            /\ gui' = [gui EXCEPT !.after = Append(@, "progreso")]
       ELSE gui' = [gui EXCEPT !.hilo = "terminado"]
    /\ UNCHANGED <<cfg, run, tape, pos, tiempos_ejecucion>>

\* the Tk main loop runs the next callback; simulacion_completada enables
\* the button
MainLoop ==
    /\ gui.after # <<>>
    /\ gui' = [gui EXCEPT
                 !.after = Tail(@),
                 !.boton = IF Head(gui.after) = "completada" THEN "normal" ELSE @,
                 !.habilitado = IF Head(gui.after) = "completada" THEN @ + 1 ELSE @]
    /\ UNCHANGED <<cfg, run, tape, pos, tiempos_ejecucion>>

\* the steps of the worker thread
Hilo ==
    \/ EjecutarExperimentos
    \/ \E r \in Runs : GuiStep(r)
    \/ ExperimentosRetorna
    \/ ExperimentosFalla
    \/ Bucle

NextGui == IniciarSimulacion \/ Hilo \/ MainLoop

\* the thread keeps running and the main loop keeps serving its callbacks
SpecGui == InitGui /\ [][NextGui]_vars /\ WF_vars(Hilo) /\ WF_vars(MainLoop)

\* the event loop keeps taking the next event while the queue holds one
ConfigsLive ==
    { Config(2, 10, 10, 1, 3, 1), Config(2, 10, 10, 2, 3, 1),
      Config(3, 10, 5, 1, 6, 1), Config(1, 0, 10, 1, 3, 1) }

InitLive == InitWith(ConfigsLive)

SpecLive == InitLive /\ [][Next]_vars /\ WF_vars(Next)

\* --------------------------------------------------------------- properties

MaxProcesos == 4

Started(r) == run[r].fase \in {"corriendo", "retornado"}

\* the process has been granted its memory request
Concedida(s, p) ==
    /\ s.procs[p].st \in {"NEW", "READY", "RUNNING", "WAITING", "TERMINATED"}
    /\ p \notin Range(s.get_queue)

\* the memory held by the live processes
RECURSIVE Held(_, _)
Held(s, ps) ==
    IF ps = {} THEN 0
    ELSE LET p == CHOOSE q \in ps : TRUE
         IN (IF Concedida(s, p) /\ s.procs[p].st # "TERMINATED"
             THEN s.procs[p].memoria ELSE 0) + Held(s, ps \ {p})

IsPrefix(a, b) == Len(a) <= Len(b) /\ \A i \in 1..Len(a) : a[i] = b[i]

\* C1: memory conservation. In every state of a run, the pool's available
\* amount plus the demands of the processes that were granted memory and have
\* not terminated equals the capacity.
C1_Conservation ==
    \A r \in Runs : Started(r) =>
        run[r].level + Held(run[r], Procs(run[r])) = run[r].capacidad

\* a process terminated and gave its memory back while another still holds its own
C1_Witness ==
    \E r \in Runs : \E p, q \in Procs(run[r]) :
        /\ run[r].procs[p].st = "TERMINATED"
        /\ run[r].procs[q].st = "RUNNING"
        /\ run[r].level = run[r].capacidad - run[r].procs[q].memoria
        /\ run[r].level < run[r].capacidad

\* C2: the CPU server is released at the end of every quantum on every branch:
\* a process that is WAITING for its I/O holds no CPU server.
C2_WaitingHoldsNoCpu ==
    \A r \in Runs : \A p \in Procs(run[r]) :
        run[r].procs[p].st = "WAITING" => p \notin run[r].users

\* C3: memory requests are served in strict arrival order: a request is never
\* granted while a request issued before it is still waiting.
C3_MemoryFifo ==
    \A r \in Runs : \A p, q \in Procs(run[r]) :
        /\ p \in Range(run[r].get_queue)
        /\ run[r].procs[q].memTicket > run[r].procs[p].memTicket
        => ~Concedida(run[r], q)

\* head-of-line blocking: the head does not fit, a later request that fits waits
C3_Witness ==
    \E r \in Runs :
        /\ Len(run[r].get_queue) >= 2
        /\ run[r].procs[run[r].get_queue[1]].memoria > run[r].level
        /\ run[r].procs[run[r].get_queue[2]].memoria <= run[r].level

\* C4: CPU FIFO fairness: of two processes waiting for the CPU, the one that
\* issued its request first is granted first: no process holds a server on a
\* request issued after the request of a process that still waits.
C4_CpuFifo ==
    \A r \in Runs : \A a, b \in Procs(run[r]) :
        /\ a \in Range(run[r].put_queue)
        /\ b \in run[r].users
        => run[r].procs[b].cpuTicket < run[r].procs[a].cpuTicket

\* b asked for the CPU while a was waiting for it; a has been granted, b waits
C4_Witness ==
    \E r \in Runs : \E a, b \in Procs(run[r]) :
        /\ a \in run[r].procs[b].detras
        /\ a \in run[r].users
        /\ b \in Range(run[r].put_queue)
        /\ run[r].procs[a].cpuTicket < run[r].procs[b].cpuTicket

\* C5: CPU capacity bound: the servers in use are between 0 and num_cpus, and a
\* step of the event loop (so each release) grants at most one waiting request.
C5_CpuCapacity ==
    [][\A r \in Runs :
        /\ Cardinality(run'[r].users) >= 0
        /\ Cardinality(run'[r].users) <= run'[r].cpus
        /\ Cardinality(run'[r].users \ run[r].users) <= 1]_vars

\* every server is taken, one was just granted on a release, another process waits
C5_Witness ==
    \E r \in Runs :
        /\ run[r].cpus = 2
        /\ Cardinality(run[r].users) = 2
        /\ run[r].put_queue # <<>>
        /\ \E e \in run[r].cola : e.tipo = "req" /\ run[r].procs[e.p].espero

\* C6: completion. Under a valid configuration, every process that has been
\* granted its memory eventually is TERMINATED with no instruction left, and
\* the turnarounds recorded are >= 0.
Completed(r, p) ==
    /\ p \in Procs(run[r])
    /\ run[r].procs[p].st = "TERMINATED"
    /\ run[r].procs[p].instrucciones = 0
    /\ \A i \in 1..Len(run[r].propios) : run[r].propios[i] >= 0

Admitted(r, p) ==
    /\ ValidConfig(cfg)
    /\ p \in Procs(run[r])
    /\ Concedida(run[r], p)

C6_Completion ==
    \A r \in Runs : \A p \in 1..MaxProcesos : Admitted(r, p) ~> Completed(r, p)

\* a process that waited for the CPU and took two quanta has terminated
C6_Witness ==
    \E r \in Runs : \E p \in Procs(run[r]) :
        /\ Completed(r, p)
        /\ run[r].procs[p].quanta = 2
        /\ run[r].procs[p].detras # {}

\* C7: determinism. A second call with the same configuration consumes the
\* same draws as the first and returns the same turnaround times.
C7_Determinism ==
    \A r \in Runs \ {1} : Started(r) =>
        /\ IsPrefix(run[r].draws, run[1].draws)
        /\ run[r].fase = "retornado" =>
             /\ run[r].draws = run[1].draws
             /\ run[r].leidos = run[1].leidos
             /\ run[r].resultado = run[1].resultado

\* both calls returned, after an I/O wait, with a process completed
C7_Witness ==
    /\ run[1].fase = "retornado"
    /\ run[2].fase = "retornado"
    /\ Len(run[2].leidos) >= 1
    /\ Len(run[2].draws) >= 5

\* C8: run isolation. Two calls whose steps interleave share no mutable state:
\* each sees the draws of its own seeded stream from the start and returns the
\* turnaround times its own processes recorded.
C8_Isolation ==
    \A r \in Runs :
        /\ \A i \in 1..Len(run[r].draws) : i <= Len(tape) => run[r].draws[i] = tape[i]
        /\ run[r].fase = "retornado" => run[r].leidos = run[r].propios

\* C9: a configuration with a non-positive parameter is rejected before the
\* run starts: no event is processed, no process is created, no result is
\* returned.
C9_Rejected ==
    ~ValidConfig(cfg) =>
        \A r \in Runs :
            /\ run[r].fase \in {"pendiente", "error"}
            /\ run[r].procesados = 0
            /\ run[r].procs = <<>>

\* C10: a run of a valid configuration that ends with no process completed
\* returns the statistics (0, 0).
C10_EmptyStats ==
    \A r \in Runs :
        /\ ValidConfig(cfg)
        /\ run[r].fase = "retornado"
        /\ run[r].leidos = <<>>
        => IsZero(run[r].resultado[1]) /\ IsZero(run[r].resultado[2])

\* C11: the virtual clock of a call never goes back and no event is scheduled
\* before the clock: every delay (arrival gap, quantum, I/O wait) is >= 0
C11_MonotonicClock ==
    [][\A r \in Runs :
         /\ run'[r].now >= run[r].now
         /\ \A e \in run'[r].cola : e.t >= run'[r].now]_vars

\* the clock has advanced past an I/O wait, with an event due now and one later
C11_Witness ==
    \E r \in Runs :
        /\ run[r].now > 0
        /\ \E p \in Procs(run[r]) : run[r].procs[p].io > 0 /\ run[r].procs[p].st = "READY"
        /\ \E e \in run[r].cola : e.t = run[r].now
        /\ \E e \in run[r].cola : e.t > run[r].now

\* C12: the available memory is never negative, and a memory request that
\* could not be granted when it was issued is granted only once a process that
\* terminated after the request has given its memory back
C12_MemoryBlocking ==
    \A r \in Runs :
        /\ run[r].level >= 0
        /\ \A p \in Procs(run[r]) :
             (run[r].procs[p].memEspero /\ run[r].procs[p].otorgada >= 0) =>
                 \E q \in Procs(run[r]) \ {p} :
                     /\ run[r].procs[q].st = "TERMINATED"
                     /\ run[r].procs[p].llegada <= run[r].procs[q].fin
                     /\ run[r].procs[q].fin <= run[r].procs[p].otorgada

\* capacity 5 and two demands of 5: the second is granted when the first ends
C12_Witness ==
    \E r \in Runs : \E p, q \in Procs(run[r]) :
        /\ run[r].capacidad = 5
        /\ run[r].procs[p].memoria = 5 /\ run[r].procs[q].memoria = 5
        /\ run[r].procs[p].memEspero
        /\ run[r].procs[q].st = "TERMINATED"
        /\ run[r].procs[p].otorgada = run[r].procs[q].fin
        /\ run[r].procs[p].otorgada > run[r].procs[p].llegada

\* every event of the current instant has been processed
Quiescent(s) == \A e \in s.cola : e.t > s.now

Pendientes(s) == { p \in Procs(s) : s.procs[p].st # "TERMINATED" }

Corriendo(s) == { p \in Procs(s) : s.procs[p].st = "RUNNING" }

\* four processes became READY together on two CPUs
CuatroJuntos(r) ==
    /\ run[r].fase = "corriendo"
    /\ run[r].cpus = 2
    /\ Len(run[r].procs) = 4
    /\ \A p \in Procs(run[r]) :
         /\ run[r].procs[p].llegada = 0
         /\ run[r].procs[p].st \in {"READY", "RUNNING", "WAITING", "TERMINATED"}

\* the CPU queue holds the requests in the order they were issued
EnOrden(s) ==
    \A i, j \in 1..Len(s.put_queue) :
        i < j => s.procs[s.put_queue[i]].cpuTicket < s.procs[s.put_queue[j]].cpuTicket

\* C13: with two CPUs and four processes READY at the same time, during each
\* quantum exactly two processes are RUNNING while at least two have work
\* left, and the others wait in the CPU queue in request order
C13_TwoRunning ==
    \A r \in Runs :
        (CuatroJuntos(r) /\ Quiescent(run[r]) /\ Cardinality(Pendientes(run[r])) >= 2) =>
            /\ Cardinality(Corriendo(run[r])) = 2
            /\ Range(run[r].put_queue) = Pendientes(run[r]) \ Corriendo(run[r])
            /\ EnOrden(run[r])

\* scenario 1 has run to its end: one process, capacity 10, one CPU, 3
\* instructions per quantum, demand 5, 4 instructions, no I/O
Escenario1(r) ==
    /\ Started(r)
    /\ cfg.num_procesos = 1 /\ cfg.memoria_total = 10
    /\ cfg.num_cpus = 1 /\ cfg.velocidad_cpu = 3
    /\ run[r].procs[1].st = "TERMINATED"
    /\ run[r].procs[1].memoria = 5
    /\ run[r].procs[1].totales = 4
    /\ run[r].procs[1].io = 0

\* C14 as stated: in scenario 1 the process takes exactly two quanta, retiring
\* 3 then 1 instructions, and its recorded turnaround is arrivalDelay + 2
C14_Original ==
    \A r \in Runs : Escenario1(r) =>
        /\ run[r].procs[1].quanta = 2
        /\ run[r].procs[1].retiradas = <<3, 1>>
        /\ (IF run[r].fase = "retornado" THEN run[r].leidos ELSE tiempos_ejecucion)
               = <<run[r].procs[1].llegada + 2 * Quantum>>

\* C14: in scenario 1 the process takes exactly two quanta, retiring 3 then 1
\* instructions; it terminates at arrivalDelay + 2 and its recorded
\* turnaround, measured from its arrival, is 2
C14_Scenario1 ==
    \A r \in Runs : Escenario1(r) =>
        /\ run[r].procs[1].quanta = 2
        /\ run[r].procs[1].retiradas = <<3, 1>>
        /\ run[r].procs[1].fin = run[r].procs[1].llegada + 2 * Quantum
        /\ (IF run[r].fase = "retornado" THEN run[r].leidos ELSE tiempos_ejecucion)
               = <<2 * Quantum>>

\* scenario 1 ended after a positive arrival delay
C14_Witness ==
    \E r \in Runs : Escenario1(r) /\ run[r].procs[1].llegada > 0

\* the least number of quanta of v instructions that cover n instructions
Ceil(n, v) == (n + v - 1) \div v

\* a call with one process, which has terminated
UnicoTerminado(r) ==
    /\ Started(r)
    /\ ValidConfig(cfg)
    /\ cfg.num_procesos = 1
    /\ run[r].procs[1].st = "TERMINATED"

\* C15: the turnaround of a single process whose demand fits is
\* ceil(totalInstructions / instructionsPerQuantum) time units plus the sum of
\* its I/O waits, whatever the capacity and the number of CPUs
C15_SingleProcess ==
    \A r \in Runs : UnicoTerminado(r) =>
        /\ run[r].procs[1].memoria <= cfg.memoria_total
        /\ run[r].procs[1].total =
               Ceil(run[r].procs[1].totales, cfg.velocidad_cpu) * Quantum
               + run[r].procs[1].io
        /\ (IF run[r].fase = "retornado" THEN run[r].leidos ELSE tiempos_ejecucion)
               = <<run[r].procs[1].total>>

\* a single process ended after two quanta and an I/O wait
C15_Witness ==
    \E r \in Runs :
        /\ UnicoTerminado(r)
        /\ run[r].procs[1].quanta = 2
        /\ run[r].procs[1].io > 0

\* the turnaround list of a call: the global list while the call runs, the
\* list the call read once it has returned
Lista(r) == IF run[r].fase = "retornado" THEN run[r].leidos ELSE tiempos_ejecucion

Terminados(s) == { p \in Procs(s) : s.procs[p].st = "TERMINATED" }

\* C16: the turnaround list holds one entry for each terminated process and
\* none for the others, in the order of the terminations (termination times
\* nondecreasing), each entry being termination time minus arrival time
C16_TurnaroundList ==
    \A r \in Runs : Started(r) =>
        LET s == run[r]
            L == Lista(r)
            T == Terminados(s)
        IN /\ Len(L) = Cardinality(T)
           /\ \A p \in T :
                /\ s.procs[p].indice \in 1..Len(L)
                /\ L[s.procs[p].indice] = s.procs[p].fin - s.procs[p].llegada
                /\ L[s.procs[p].indice] >= 0
           /\ \A p, q \in T :
                /\ p # q => s.procs[p].indice # s.procs[q].indice
                /\ s.procs[p].indice < s.procs[q].indice =>
                       s.procs[p].fin <= s.procs[q].fin

\* two processes have terminated at different times with different
\* turnarounds while a third has not
C16_Witness ==
    \E r \in Runs : \E p, q \in Terminados(run[r]) :
        /\ Started(r)
        /\ run[r].procs[p].fin < run[r].procs[q].fin
        /\ run[r].procs[p].total # run[r].procs[q].total
        /\ Terminados(run[r]) # Procs(run[r])
        /\ Len(Lista(r)) = 2

\* the raw values the call drew in the step
Nuevos(r) == SubSeq(run'[r].draws, Len(run[r].draws) + 1, Len(run'[r].draws))

\* C17: a process changes state only by NEW -> READY (memory granted),
\* READY -> RUNNING (CPU granted), RUNNING -> TERMINATED (nothing left),
\* RUNNING -> WAITING (work left and the draw is the sentinel), RUNNING -> READY
\* (work left, another draw) and WAITING -> READY; a TERMINATED process takes no
\* further step and makes no further draw. Before NEW the coroutine is created
\* and waits for its arrival, or fails.
C17_Transitions ==
    [][\A r \in Runs :
         /\ \A p \in Procs(run[r]) \cap Procs(run'[r]) :
              LET a == run[r].procs[p]
                  b == run'[r].procs[p]
              IN /\ a.st # b.st =>
                      \/ a.st = "creado" /\ b.st \in {"llegando", "fallido"}
                      \/ a.st = "llegando" /\ b.st = "NEW"
                      \/ a.st = "NEW" /\ b.st = "READY" /\ a.tieneMem
                      \/ a.st = "READY" /\ b.st = "RUNNING" /\ p \in run[r].users
                      \/ /\ a.st = "RUNNING" /\ b.st = "TERMINATED"
                         /\ b.instrucciones = 0
                         /\ Nuevos(r) = <<>>
                      \/ /\ a.st = "RUNNING" /\ b.st = "WAITING"
                         /\ b.instrucciones > 0
                         /\ Len(Nuevos(r)) = 2
                         /\ DecisionOf(Nuevos(r)[1]) = Sentinel
                      \/ /\ a.st = "RUNNING" /\ b.st = "READY"
                         /\ b.instrucciones > 0
                         /\ Len(Nuevos(r)) = 1
                         /\ DecisionOf(Nuevos(r)[1]) # Sentinel
                      \/ a.st = "WAITING" /\ b.st = "READY"
                 /\ a.st = "TERMINATED" => b = a
         /\ (run[r].cola # {} /\ run'[r].draws # run[r].draws) =>
                run[r].procs[NextEvent(run[r]).p].st # "TERMINATED"]_vars

\* a process has gone through NEW, READY, RUNNING, WAITING, READY, RUNNING
\* and TERMINATED while another one is still at work
C17_Witness ==
    \E r \in Runs : \E p, q \in Procs(run[r]) :
        /\ run[r].procs[p].st = "TERMINATED"
        /\ run[r].procs[p].io > 0
        /\ run[r].procs[q].st \in {"READY", "RUNNING", "WAITING"}

\* C18: each quantum retires exactly min(instructionsPerQuantum, remaining)
\* instructions, the remaining count stays within 0..totalInstructions and
\* goes down at every quantum, and a terminated process was granted the CPU
\* exactly ceil(totalInstructions / instructionsPerQuantum) times
C18_Quantum ==
    \A r \in Runs : (Started(r) /\ cfg.velocidad_cpu > 0) =>
        \A p \in Procs(run[r]) :
            LET x == run[r].procs[p]
            IN /\ 0 <= x.instrucciones /\ x.instrucciones <= x.totales
               /\ x.instrucciones = x.totales - Sum(x.retiradas)
               /\ \A i \in 1..Len(x.retiradas) :
                    /\ x.retiradas[i] =
                          Min(cfg.velocidad_cpu,
                              x.totales - Sum(SubSeq(x.retiradas, 1, i - 1)))
                    /\ x.retiradas[i] > 0
               /\ Len(x.retiradas) \in {x.quanta, x.quanta - 1}
               /\ x.st = "TERMINATED" =>
                    /\ x.instrucciones = 0
                    /\ Len(x.retiradas) = x.quanta
                    /\ x.quanta = Ceil(x.totales, cfg.velocidad_cpu)

\* a process ended after quanta of 3 and 1 instructions while another has
\* retired 3 of its 4
C18_Witness ==
    \E r \in Runs : \E p, q \in Procs(run[r]) :
        /\ run[r].procs[p].st = "TERMINATED"
        /\ run[r].procs[p].retiradas = <<3, 1>>
        /\ run[r].procs[q].st # "TERMINATED"
        /\ run[r].procs[q].totales = 4
        /\ run[r].procs[q].instrucciones = 1

\* the end of the quantum of process p is scheduled in s at time t
FinDeQuantum(s, p, t) ==
    \E e \in s.cola : e.tipo = "quantum" /\ e.p = p /\ e.t = t

\* C19: every CPU grant is followed by the end of that quantum exactly one
\* time unit later, whatever instructionsPerQuantum is and however many
\* instructions the quantum retires
C19_QuantumLength ==
    [][\A r \in Runs : \A p \in Procs(run[r]) \cap Procs(run'[r]) :
         LET a == run[r].procs[p]
             b == run'[r].procs[p]
         IN /\ (a.st # "RUNNING" /\ b.st = "RUNNING") =>
                 /\ b.inicio = run'[r].now
                 /\ FinDeQuantum(run'[r], p, b.inicio + Quantum)
            /\ (a.st = "RUNNING" /\ b.st = "RUNNING") =>
                 /\ b.inicio = a.inicio
                 /\ FinDeQuantum(run'[r], p, b.inicio + Quantum)
            /\ (a.st = "RUNNING" /\ b.st # "RUNNING") =>
                 /\ run'[r].now = a.inicio + Quantum
                 /\ Len(b.retiradas) = Len(a.retiradas) + 1]_vars

\* a quantum that retired fewer than velocidad_cpu instructions has ended one
\* unit after its grant, after a quantum that retired velocidad_cpu
C19_Witness ==
    \E r \in Runs : \E p \in Procs(run[r]) :
        /\ run[r].procs[p].st = "TERMINATED"
        /\ Len(run[r].procs[p].retiradas) = 2
        /\ run[r].procs[p].retiradas[2] < cfg.velocidad_cpu
        /\ run[r].procs[p].fin = run[r].procs[p].inicio + Quantum

\* C20: round robin. A process that ends a quantum with work left and no I/O
\* asks for the CPU again at the same virtual time and is queued behind every
\* process already waiting; when another process is waiting, the released
\* server goes to the head of the queue and not back to the releasing process
C20_RoundRobin ==
    [][\A r \in Runs : \A p \in Procs(run[r]) \cap Procs(run'[r]) :
         LET a == run[r].procs[p]
             b == run'[r].procs[p]
         IN (a.st = "RUNNING" /\ b.st = "READY") =>
              /\ run'[r].now = a.inicio + Quantum
              /\ b.cpuTicket = run[r].tickets + 1
              /\ IF run[r].put_queue # <<>>
                 THEN /\ run'[r].put_queue = Append(Tail(run[r].put_queue), p)
                      /\ Head(run[r].put_queue) \in run'[r].users
                      /\ p \notin run'[r].users
                 ELSE /\ run'[r].put_queue = <<>>
                      /\ p \in run'[r].users]_vars

\* a process has ended a quantum with work left and no I/O while another was
\* waiting: it is the last of the queue and the one that waited has the server
C20_Witness ==
    \E r \in Runs : \E p, q \in Procs(run[r]) :
        /\ run[r].procs[p].st = "READY"
        /\ Len(run[r].procs[p].retiradas) >= 1
        /\ run[r].procs[p].io = 0
        /\ run[r].put_queue # <<>>
        /\ run[r].put_queue[Len(run[r].put_queue)] = p
        /\ q \in run[r].procs[p].detras
        /\ q \in run[r].users
        /\ \E e \in run[r].cola : e.tipo = "req" /\ e.p = q /\ e.t = run[r].now

\* the head of the memory queue does not fit in what is available
CabezaNoCabe(s) ==
    s.get_queue = <<>> \/ s.level < s.procs[Head(s.get_queue)].memoria

\* a RAM.put has been made whose event is still to be processed
PutPendiente(s) == \E e \in s.cola : e.tipo = "put"

\* C21 as stated: in every state between events the memory queue is empty or
\* the available amount is smaller than the amount of the head request
C21_Original == \A r \in Runs : CabezaNoCabe(run[r])

\* C21: once a memory release has been processed the waiting requests have
\* been granted from the head for as long as they fit: in every state with no
\* release still to be processed the memory queue is empty or the available
\* amount is smaller than the amount of the head request
C21_HeadBlocked ==
    \A r \in Runs : ~PutPendiente(run[r]) => CabezaNoCabe(run[r])

\* one release has let two waiting requests in, and the release is processed
C21_Witness ==
    \E r \in Runs : \E p, q, z \in Procs(run[r]) :
        /\ p # q
        /\ ~PutPendiente(run[r])
        /\ run[r].procs[z].st = "TERMINATED"
        /\ run[r].procs[p].memEspero /\ run[r].procs[q].memEspero
        /\ run[r].procs[p].otorgada = run[r].procs[z].fin
        /\ run[r].procs[q].otorgada = run[r].procs[z].fin
        /\ run[r].now = run[r].procs[z].fin

\* nobody waits for the CPU, or every server is in use
SinServidorLibre(s) ==
    s.put_queue = <<>> \/ Cardinality(s.users) = s.cpus

\* a CPU release has been made whose event is still to be processed
ReleasePendiente(s) == \E e \in s.cola : e.tipo = "release"

\* C22 as stated: in every state between events, if a process waits in the
\* CPU queue then all the servers are in use
C22_Original == \A r \in Runs : SinServidorLibre(run[r])

\* C22: the CPU pool is work-conserving: in every state with no CPU release
\* still to be processed, if a process waits in the CPU queue then all the
\* servers are in use, and a request that was not left waiting holds a server
C22_WorkConserving ==
    \A r \in Runs :
        /\ ~ReleasePendiente(run[r]) => SinServidorLibre(run[r])
        /\ \A p \in Procs(run[r]) :
             (run[r].procs[p].st = "READY" /\ ~run[r].procs[p].espero) =>
                 p \in run[r].users

\* two processes wait while both servers are in use and no release is pending,
\* after one of the users was granted its request without waiting
C22_Witness ==
    \E r \in Runs : \E p \in run[r].users :
        /\ run[r].cpus = 2
        /\ Len(run[r].put_queue) = 2
        /\ Cardinality(run[r].users) = 2
        /\ ~ReleasePendiente(run[r])
        /\ ~run[r].procs[p].espero

\* the demands of the processes of ps
RECURSIVE Demanda(_, _)
Demanda(s, ps) ==
    IF ps = {} THEN 0
    ELSE LET p == CHOOSE q \in ps : TRUE
         IN s.procs[p].memoria + Demanda(s, ps \ {p})

\* C23: the demand of a process is fixed when it is drawn at NEW; the memory
\* pool goes down by exactly the demands of the processes it admits and up by
\* exactly the demand of the process that terminates, only when one terminates;
\* a TERMINATED process holds neither memory nor a CPU server
C23_FixedDemand ==
    [][\A r \in Runs : run[r].fase = "corriendo" =>
         LET s == run[r]
             t == run'[r]
             admitidos == { p \in Procs(s) : ~s.procs[p].tieneMem /\ t.procs[p].tieneMem }
             terminan == { p \in Procs(s) : s.procs[p].st # "TERMINATED"
                                             /\ t.procs[p].st = "TERMINATED" }
         IN /\ \A p \in Procs(s) :
                 /\ s.procs[p].llegada >= 0 =>
                       /\ t.procs[p].memoria = s.procs[p].memoria
                       /\ t.procs[p].totales = s.procs[p].totales
                 /\ t.procs[p].st = "TERMINATED" =>
                       /\ ~t.procs[p].tieneMem
                       /\ p \notin t.users
                       /\ p \notin Range(t.put_queue)
                       /\ p \notin Range(t.get_queue)
            /\ \A p \in terminan : s.procs[p].tieneMem
            /\ \A p \in admitidos : s.procs[p].st = "NEW" \/ t.procs[p].st = "NEW"
            /\ t.level = s.level - Demanda(t, admitidos) + Demanda(s, terminan)
            /\ Cardinality(terminan) <= 1]_vars

\* a process has terminated and its memory has gone to one that waited for it
C23_Witness ==
    \E r \in Runs : \E p, q \in Procs(run[r]) :
        /\ run[r].procs[p].st = "TERMINATED"
        /\ run[r].procs[q].memEspero
        /\ run[r].procs[q].tieneMem
        /\ run[r].level = run[r].capacidad - run[r].procs[q].memoria

\* the number of places of the sequence q that hold p
Veces(q, p) == Cardinality({ i \in 1..Len(q) : q[i] = p })

\* C24: a process issues one memory request, at NEW, and asks for the CPU only
\* while it holds its memory: a process that waits for or holds a CPU server
\* has been granted its demand and has not released it, and it has at most one
\* outstanding CPU request
C24_OneRequest ==
    [][\A r \in Runs : run[r].fase = "corriendo" =>
         LET s == run[r]
             t == run'[r]
         IN \A p \in Procs(s) :
              /\ t.procs[p].memTicket # s.procs[p].memTicket =>
                    /\ s.procs[p].memTicket = 0
                    /\ s.procs[p].st = "llegando" /\ t.procs[p].st = "NEW"
              /\ Veces(t.get_queue, p) <= 1
              /\ Veces(t.get_queue, p) = 1 =>
                    t.procs[p].st = "NEW" /\ ~t.procs[p].tieneMem
              /\ (p \in t.users \/ p \in Range(t.put_queue)) =>
                    /\ t.procs[p].tieneMem
                    /\ Concedida(t, p)
                    /\ t.procs[p].st \in {"READY", "RUNNING", "WAITING"}
              /\ Veces(t.put_queue, p) + (IF p \in t.users THEN 1 ELSE 0) <= 1]_vars

\* a process that waited for its memory now waits for the CPU, which another
\* process holds
C24_Witness ==
    \E r \in Runs : \E p, q \in Procs(run[r]) :
        /\ run[r].procs[p].memEspero
        /\ run[r].procs[p].tieneMem
        /\ p \in Range(run[r].put_queue)
        /\ q \in run[r].users
        /\ run[r].procs[q].quanta >= 2

\* the process has arrived
Llegado(s, p) == s.procs[p].llegada >= 0

\* C25: arrivals are spaced by successive gaps: the arrival time of process i
\* is the arrival time of process i - 1 plus one gap, so the arrival times are
\* nondecreasing in the process index
C25_Arrivals ==
    \A r \in Runs : Started(r) =>
        \A i \in Procs(run[r]) : Llegado(run[r], i) =>
            /\ i > 1 => /\ Llegado(run[r], i - 1)
                        /\ run[r].procs[i - 1].llegada <= run[r].procs[i].llegada
            /\ run[r].procs[i].llegada =
                  (IF i = 1 THEN 0 ELSE run[r].procs[i - 1].llegada)
                  + GapOf(run[r].draws[i])

\* the process has asked for more memory than the pool can ever hold
Bloqueado(s, q) ==
    /\ q \in Procs(s)
    /\ s.procs[q].memTicket > 0
    /\ s.procs[q].memoria > s.capacidad

\* q is blocked and p asked for its memory after q
Detras(s, q, p) ==
    /\ Bloqueado(s, q)
    /\ p \in Procs(s)
    /\ s.procs[p].memTicket > s.procs[q].memTicket

\* C26: a process whose demand exceeds the capacity stays in NEW for ever and
\* so does every process that asks for memory after it, while every process
\* admitted before it runs to TERMINATED and gives its memory back
C26_BlockedForever ==
    /\ [](\A r \in Runs : \A q, p \in Procs(run[r]) :
            /\ Bloqueado(run[r], q) =>
                  /\ run[r].procs[q].st = "NEW"
                  /\ ~run[r].procs[q].tieneMem
                  /\ q \in Range(run[r].get_queue)
            /\ Detras(run[r], q, p) =>
                  /\ run[r].procs[p].st = "NEW"
                  /\ ~run[r].procs[p].tieneMem
                  /\ p \in Range(run[r].get_queue))
    /\ \A r \in Runs : \A p \in 1..MaxProcesos :
          (Admitted(r, p) /\ \E q \in Procs(run[r]) : Bloqueado(run[r], q))
              ~> (Completed(r, p) /\ ~run[r].procs[p].tieneMem)

\* the call has returned with a blocked process, one that asked after it and
\* fits, and one admitted before it that has terminated
C26_Witness ==
    \E r \in Runs : \E q, p, z \in Procs(run[r]) :
        /\ run[r].fase = "retornado"
        /\ Bloqueado(run[r], q)
        /\ Detras(run[r], q, p)
        /\ run[r].procs[p].memoria <= run[r].capacidad
        /\ run[r].procs[z].memTicket < run[r].procs[q].memTicket
        /\ run[r].procs[z].st = "TERMINATED"
        /\ run[r].level = run[r].capacidad

\* the call has returned its result with nothing left in the event queue
Devuelto(r) ==
    /\ run[r].fase = "retornado"
    /\ run[r].cola = {}
    /\ Len(run[r].resultado) = 2

\* C27: for every configuration with positive parameters the event loop
\* terminates: the event queue becomes empty and the call returns its result,
\* also when some processes stay blocked on a memory request above the capacity
C27_Termination ==
    \A r \in Runs :
        (run[r].fase = "corriendo" /\ ValidConfig(cfg)) ~> Devuelto(r)

\* the call has returned while a process is blocked on its memory request
C27_Witness ==
    \E r \in Runs : \E q \in Procs(run[r]) :
        /\ ValidConfig(cfg)
        /\ Devuelto(r)
        /\ Bloqueado(run[r], q)
        /\ run[r].procs[q].st = "NEW"
        /\ run[r].procesados > 0

\* C28: the worker thread started by iniciar_simulacion always ends and leaves
\* simulacion_en_progreso False, when ejecutar_experimentos returns and when
\* it raises, and in both cases the start button is enabled again exactly once
C28_WorkerEnds ==
    /\ (gui.hilo # "no") ~> (gui.hilo = "terminado" /\ ~gui.en_progreso)
    /\ (gui.hilo # "no") ~> (gui.boton = "normal" /\ gui.habilitado = 1)
    /\ [](gui.habilitado <= 1)

====
